---------------------------- MODULE Spec2Model ----------------------------
(***************************************************************************)
(* Model of real_state_manager:                                            *)
(*   - the unit-of-work lifecycle wired in src/config/container.py         *)
(*     (create_application: transaction hooks and the two middlewares),    *)
(*   - ContainerProvider, the dependency provider of the same file,        *)
(*   - the Period and Money value objects,                                 *)
(*   - PartnerPerformance, the per-period achievements of a partner.       *)
(* Each part has its own specification (SpecUow, SpecDI, SpecPeriod,       *)
(* SpecMoney, SpecPerf); the                                               *)
(* variables of the other parts keep their initial values.                 *)
(***************************************************************************)
EXTENDS Integers, Sequences, FiniteSets, TLC

VARIABLES
    \* ---- unit of work ----
    pc,             \* position of the current unit of work
    units,          \* units of work started so far
    handler_kwargs, \* call_next.keywords: the handler's arguments, in order
    domain_events,  \* event_collector_middleware's local list
    pub_idx,        \* events of domain_events already handed to publish_async
    published,      \* events whose publish_async completed
    emitted,        \* per argument, the events the handler raised (history)
    exc,            \* exception travelling up the middleware chain
    raised,         \* exception leaving on_exit_transaction_context
    correlation_id, \* logger.correlation_id
    trace,          \* calls made during the current unit of work, in order
    \* ---- dependency provider ----
    attrs,          \* provider -> (key -> provider object): container attributes
    provs_ref,      \* provider -> id of the dict held in container.providers
    provs_dict,     \* dict id -> keys of that container.providers dict
    counter,        \* provider -> ContainerProvider.counter
    alive,          \* the ContainerProvider objects constructed so far
    reg,            \* history: provider -> (identifier -> last registered value)
    calls,          \* register_dependency calls made so far
    last_op,        \* the last call made on a provider, with its result
    \* ---- Period ----
    p, q, r, cmp,
    \* ---- Money ----
    money,          \* the Money value at hand: [amount, currency]
    money_last,     \* the last operation on it: what was asked, how it ended
    \* ---- PartnerPerformance ----
    perf,           \* operations_closed, properties_captured, revenue_generated
    perf_last       \* the last call: its name, how it ended, the fields before

uowVars == <<pc, units, handler_kwargs, domain_events, pub_idx, published,
             emitted, exc, raised, correlation_id, trace>>
diVars == <<attrs, provs_ref, provs_dict, counter, alive, reg, calls, last_op>>
periodVars == <<p, q, r, cmp>>
moneyVars == <<money, money_last>>
perfVars == <<perf, perf_last>>
vars == <<uowVars, diVars, periodVars, moneyVars, perfVars>>

(***************************************************************************)
(* Bounds                                                                  *)
(***************************************************************************)
MaxUnits == 2
MaxEvents == 2
NumArgs == 2
MaxCalls == 2
NumYears == 2
MaxAmount == 10
MaxCount == 2

(***************************************************************************)
(* Helpers on sequences                                                    *)
(***************************************************************************)
Count(s, x) == Cardinality({i \in DOMAIN s : s[i] = x})

Positions(s, x) == {i \in DOMAIN s : s[i] = x}

RECURSIVE Flatten(_)
Flatten(ss) == IF ss = <<>> THEN <<>> ELSE Head(ss) \o Flatten(Tail(ss))

(***************************************************************************)
(* Unit of work                                                            *)
(***************************************************************************)
Args == 1..NumArgs

\* The events argument a can hold: <<a, k>> is the k-th event raised through it.
EventsOf(a, n) == [k \in 1..n |-> <<a, k>>]

NoKwargs == [a \in Args |-> [isRepo |-> FALSE, buf |-> <<>>]]

UowInit ==
    /\ pc = "idle"
    /\ units = 0
    /\ handler_kwargs = NoKwargs
    /\ domain_events = <<>>
    /\ pub_idx = 0
    /\ published = <<>>
    /\ emitted = [a \in Args |-> <<>>]
    /\ exc = "none"
    /\ raised = "none"
    /\ correlation_id = "zero"
    /\ trace = <<>>

\* on_create_transaction_context: a fresh session, a fresh correlation id and
\* fresh repositories; the handler about to run takes some of them as arguments.
OnCreateTransactionContext ==
    /\ pc \in {"idle", "ended"}
    /\ units < MaxUnits
    /\ units' = units + 1
    /\ \E repos \in SUBSET Args :
          handler_kwargs' = [a \in Args |-> [isRepo |-> a \in repos, buf |-> <<>>]]
    /\ domain_events' = <<>>
    /\ pub_idx' = 0
    /\ published' = <<>>
    /\ emitted' = [a \in Args |-> <<>>]
    /\ exc' = "none"
    /\ raised' = "none"
    /\ correlation_id' = "uuid4"
    /\ trace' = <<>>
    /\ pc' = "created"
    /\ UNCHANGED <<diVars, periodVars, moneyVars, perfVars>>

\* on_enter_transaction_context
OnEnterTransactionContext ==
    /\ pc = "created"
    /\ trace' = Append(trace, "debug:Entering transaction")
    /\ pc' = "entered"
    /\ UNCHANGED <<units, handler_kwargs, domain_events, pub_idx, published,
                   emitted, exc, raised, correlation_id>>
    /\ UNCHANGED <<diVars, periodVars, moneyVars, perfVars>>

\* logging_middleware up to call_next()
LoggingMiddlewareBefore ==
    /\ pc = "entered"
    /\ trace' = Append(trace, "debug:Executing")
    /\ pc' = "logging_call_next"
    /\ UNCHANGED <<units, handler_kwargs, domain_events, pub_idx, published,
                   emitted, exc, raised, correlation_id>>
    /\ UNCHANGED <<diVars, periodVars, moneyVars, perfVars>>

\* event_collector_middleware up to call_next()
EventCollectorBefore ==
    /\ pc = "logging_call_next"
    /\ pc' = "collector_call_next"
    /\ UNCHANGED <<units, handler_kwargs, domain_events, pub_idx, published,
                   emitted, exc, raised, correlation_id, trace>>
    /\ UNCHANGED <<diVars, periodVars, moneyVars, perfVars>>

\* The command handler: it raises events through its repository arguments and
\* either returns or raises.
Handler ==
    /\ pc = "collector_call_next"
    /\ \E n \in [Args -> 0..MaxEvents], ok \in BOOLEAN :
          /\ \A a \in Args : ~handler_kwargs[a].isRepo => n[a] = 0
          /\ handler_kwargs' =
                [a \in Args |-> [handler_kwargs[a] EXCEPT !.buf = EventsOf(a, n[a])]]
          /\ emitted' = [a \in Args |-> EventsOf(a, n[a])]
          /\ exc' = IF ok THEN "none" ELSE "handler"
          /\ pc' = IF ok THEN "handler_returned" ELSE "exiting"
    /\ trace' = Append(trace, "handler")
    /\ UNCHANGED <<units, domain_events, pub_idx, published, raised, correlation_id>>
    /\ UNCHANGED <<diVars, periodVars, moneyVars, perfVars>>

\* GenericRepository.collect_events: the buffered events, and the buffer after.
collect_events(repo) == [events |-> repo.buf, repo |-> [repo EXCEPT !.buf = <<>>]]

\* filter(lambda x: hasattr(x, "collect_events"), handler_kwargs.values())
CollectorReposSkipFirst(kwargs) ==
    [a \in Args |-> kwargs[a].isRepo /\ a # 1]

CollectorRepos(kwargs) == [a \in Args |-> kwargs[a].isRepo]

\* for repo in repositories: domain_events.extend(repo.collect_events())
EventCollectorCollect ==
    /\ pc = "handler_returned"
    /\ LET sel == CollectorRepos(handler_kwargs)
       IN /\ domain_events' =
                Flatten([a \in Args |->
                    IF sel[a] THEN collect_events(handler_kwargs[a]).events ELSE <<>>])
          /\ handler_kwargs' =
                [a \in Args |->
                    IF sel[a] THEN collect_events(handler_kwargs[a]).repo
                    ELSE handler_kwargs[a]]
          /\ trace' = trace \o Flatten([a \in Args |->
                    IF sel[a] THEN <<"collect_events">> ELSE <<>>])
    /\ pub_idx' = 0
    /\ pc' = "publishing"
    /\ UNCHANGED <<units, published, emitted, exc, raised, correlation_id>>
    /\ UNCHANGED <<diVars, periodVars, moneyVars, perfVars>>

\* for event in domain_events: await ctx.publish_async(event)
EventCollectorPublish ==
    /\ pc = "publishing"
    /\ pub_idx < Len(domain_events)
    /\ pub_idx' = pub_idx + 1
    /\ trace' = Append(trace, "publish_async")
    /\ \E ok \in BOOLEAN :
          IF ok
          THEN /\ published' = Append(published, domain_events[pub_idx + 1])
               /\ UNCHANGED <<pc, exc>>
          ELSE /\ pc' = "exiting"
               /\ exc' = "publish"
               /\ UNCHANGED published
    /\ UNCHANGED <<units, handler_kwargs, domain_events, emitted, raised,
                   correlation_id>>
    /\ UNCHANGED <<diVars, periodVars, moneyVars, perfVars>>

\* event_collector_middleware: return result
EventCollectorReturn ==
    /\ pc = "publishing"
    /\ pub_idx = Len(domain_events)
    /\ pc' = "collector_returned"
    /\ UNCHANGED <<units, handler_kwargs, domain_events, pub_idx, published,
                   emitted, exc, raised, correlation_id, trace>>
    /\ UNCHANGED <<diVars, periodVars, moneyVars, perfVars>>

\* logging_middleware after call_next() returned
LoggingMiddlewareAfter ==
    /\ pc = "collector_returned"
    /\ trace' = Append(trace, "debug:Finished executing")
    /\ pc' = "exiting"
    /\ UNCHANGED <<units, handler_kwargs, domain_events, pub_idx, published,
                   emitted, exc, raised, correlation_id>>
    /\ UNCHANGED <<diVars, periodVars, moneyVars, perfVars>>

\* on_exit_transaction_context(ctx, exception): the calls it makes, in order.
\* commit_ok is whether session.commit() returns; when it raises, the
\* exception leaves the hook at that line.
ExitCallsCommitAnyway(exception, commit_ok) ==
    <<"session.commit", "debug:committed", "session.close",
      "debug:transaction ended", "correlation_id.set(0)">>

ExitCalls(exception, commit_ok) ==
    IF exception # "none"
    THEN <<"session.rollback", "warning:rollback due to", "session.close",
           "debug:transaction ended", "correlation_id.set(0)">>
    ELSE IF commit_ok
         THEN <<"session.commit", "debug:committed", "session.close",
                "debug:transaction ended", "correlation_id.set(0)">>
         ELSE <<"session.commit">>

\* The exception that leaves on_exit_transaction_context.
ExitRaisesReraise(exception, commit_ok) ==
    IF exception # "none" THEN exception
    ELSE IF commit_ok THEN "none" ELSE "commit"

ExitRaises(exception, commit_ok) ==
    IF exception # "none" THEN "none"
    ELSE IF commit_ok THEN "none" ELSE "commit"

OnExitTransactionContext ==
    /\ pc = "exiting"
    /\ \E commit_ok \in BOOLEAN :
          /\ exc # "none" => commit_ok
          /\ trace' = trace \o ExitCalls(exc, commit_ok)
          /\ raised' = ExitRaises(exc, commit_ok)
          /\ correlation_id' =
                IF Count(ExitCalls(exc, commit_ok), "correlation_id.set(0)") > 0
                THEN "zero" ELSE correlation_id
    /\ pc' = "ended"
    /\ UNCHANGED <<units, handler_kwargs, domain_events, pub_idx, published,
                   emitted, exc>>
    /\ UNCHANGED <<diVars, periodVars, moneyVars, perfVars>>

UowNext ==
    \/ OnCreateTransactionContext
    \/ OnEnterTransactionContext
    \/ LoggingMiddlewareBefore
    \/ EventCollectorBefore
    \/ Handler
    \/ EventCollectorCollect
    \/ EventCollectorPublish
    \/ EventCollectorReturn
    \/ LoggingMiddlewareAfter
    \/ OnExitTransactionContext

(***************************************************************************)
(* ContainerProvider                                                       *)
(***************************************************************************)
\* The provider built for a transaction and the one copy() derives from it.
Providers == {"original", "derived"}

Instances == {"v1", "v2"}

\* Identifiers.  Str(s) is the string s, Derived(T, n) the string
\* f"{str(T)}-{n}" and Type(T) the class T itself.
Str(s) == [kind |-> "str", name |-> s, n |-> -1]

Derived(T, n) == [kind |-> "str", name |-> T, n |-> n]

Type(T) == [kind |-> "type", name |-> T, n |-> -1]

\* Classes asked for, and the classes used as identifiers of a registration.
Types == {"Session", "GenericRepository", "Money"}

RegTypes == {"Session"}

RegStrs == {"publish", "db_session"}

\* issubclass(c, d) over the classes the container declares.
Repositories == {"StrategyRepository", "PartnerRepository", "OperationRepository"}

issubclass(c, d) ==
    \/ c = d
    \/ d = "object"
    \/ c \in Repositories /\ d = "GenericRepository"

\* class TransactionContainer: name -> provider.
Absent == [kind |-> "absent", cls |-> "-", inst |-> "-"]

Object(inst) == [kind |-> "Object", cls |-> "-", inst |-> inst]

TransactionContainer ==
    (Str("correlation_id") :> [kind |-> "Dependency", cls |-> "UUID", inst |-> "correlation_id"])
 @@ (Str("db_session") :> [kind |-> "Dependency", cls |-> "Session", inst |-> "session"])
 @@ (Str("logger") :> [kind |-> "Dependency", cls |-> "Logger", inst |-> "logger"])
 @@ (Str("outbox") :> [kind |-> "Singleton", cls |-> "InMemoryOutbox", inst |-> "outbox"])
 @@ (Str("strategy_repository") :>
        [kind |-> "Singleton", cls |-> "StrategyRepository", inst |-> "strategy_repository"])
 @@ (Str("partner_repository") :>
        [kind |-> "Singleton", cls |-> "PartnerRepository", inst |-> "partner_repository"])
 @@ (Str("operation_repository") :>
        [kind |-> "Singleton", cls |-> "OperationRepository", inst |-> "operation_repository"])

Keys ==
    DOMAIN TransactionContainer
    \cup {Str(s) : s \in RegStrs}
    \cup {Derived(T, n) : T \in RegTypes, n \in 0..(MaxCalls - 1)}

RegIds == {Str(s) : s \in RegStrs} \cup {Type(T) : T \in RegTypes}

\* The register_dependency calls made: <<identifier, instance>>.
RegInputs ==
    {<<Str("publish"), v>> : v \in Instances}
    \cup {<<Type(T), v>> : T \in RegTypes, v \in Instances}
    \cup {<<Str("db_session"), "v1">>}

LookupIds ==
    {Type(T) : T \in Types} \cup {Str("publish")} \cup {Derived(T, 0) : T \in RegTypes}

NoAttrs == [k \in Keys |-> Absent]

\* inspect_provider(provider) of resolve_provider_by_type
inspect_provider(provider, cls) ==
    IF provider.kind \in {"Factory", "Singleton"} THEN issubclass(provider.cls, cls)
    ELSE IF provider.kind = "Dependency" THEN issubclass(provider.cls, cls)
    ELSE FALSE

\* matching_providers = inspect.getmembers(container, inspect_provider)
matching_providers(container, cls) ==
    {k \in Keys : container[k] # Absent /\ inspect_provider(container[k], cls)}

\* resolve_provider_by_type: the provider, None, or the exception raised at
\* the raise statement (building its message fails first, on len(providers)
\* of a module: an exception either way).
None == [kind |-> "None", cls |-> "-", inst |-> "-"]

Raised == [kind |-> "raise", cls |-> "-", inst |-> "-"]

resolve_first_match(container, cls) ==
    LET m == matching_providers(container, cls)
    IN IF m # {} THEN container[CHOOSE k \in m : TRUE] ELSE None

resolve_provider_by_type(container, cls) ==
    LET m == matching_providers(container, cls)
    IN IF m # {}
       THEN IF Cardinality(m) > 1 THEN Raised
            ELSE container[CHOOSE k \in m : TRUE]
       ELSE None

\* provider(): the instance a provider object gives; calling None raises.
Error == "Error"

call(provider) ==
    IF provider.kind \in {"None", "raise", "absent"} THEN Error ELSE provider.inst

\* ContainerProvider.get_dependency: the instance, or Error for an exception.
get_dependency(container, identifier) ==
    IF identifier.kind = "type"
    THEN call(resolve_provider_by_type(container, identifier.name))
    ELSE call(container[identifier])

\* ContainerProvider.has_dependency: "True", "False", or Error when
\* resolve_provider_by_type raises.  dict is the container.providers mapping.
has_dependency(container, dict, identifier) ==
    IF identifier.kind = "type"
    THEN LET pr == resolve_provider_by_type(container, identifier.name)
         IN IF pr = Raised THEN Error
            ELSE IF pr # None THEN "True" ELSE "False"
    ELSE IF identifier \in dict THEN "True" ELSE "False"

\* ContainerProvider.register_dependency on a provider whose state is
\* st = [attrs, dict, counter]: the state after.  setattr(container, name, pr)
\* binds the attribute and enters name in container.providers; with a class
\* as name it raises TypeError and the derived key is used.
register_no_fallback(st, identifier, inst) ==
    IF identifier.kind = "str"
    THEN [attrs |-> [st.attrs EXCEPT ![identifier] = Object(inst)],
          dict |-> st.dict \cup {identifier},
          counter |-> st.counter]
    ELSE st

register_dependency(st, identifier, inst) ==
    IF identifier.kind = "str"
    THEN [attrs |-> [st.attrs EXCEPT ![identifier] = Object(inst)],
          dict |-> st.dict \cup {identifier},
          counter |-> st.counter]
    ELSE LET key == Derived(identifier.name, st.counter)
         IN [attrs |-> [st.attrs EXCEPT ![key] = Object(inst)],
             dict |-> st.dict \cup {key},
             counter |-> st.counter + 1]

State(pr) == [attrs |-> attrs[pr], dict |-> provs_dict[provs_ref[pr]],
              counter |-> counter[pr]]

NeverRegistered == "-"

DIInit ==
    /\ alive = {"original"}
    /\ attrs = [pr \in Providers |->
                  IF pr = "original"
                  THEN [k \in Keys |-> IF k \in DOMAIN TransactionContainer
                                       THEN TransactionContainer[k] ELSE Absent]
                  ELSE NoAttrs]
    /\ provs_ref = [pr \in Providers |-> "d1"]
    /\ provs_dict = [d \in {"d1"} |-> DOMAIN TransactionContainer]
    /\ counter = [pr \in Providers |-> 0]
    /\ reg = [pr \in Providers |-> [i \in RegIds |-> NeverRegistered]]
    /\ calls = 0
    /\ last_op = [op |-> "init", prov |-> "original", id |-> Str("publish"),
                  result |-> "-"]

\* A caller registers inst under identifier on provider pr.
RegisterDependency(pr, identifier, inst) ==
    /\ pr \in alive
    /\ calls < MaxCalls
    /\ LET st == register_dependency(State(pr), identifier, inst)
       IN /\ attrs' = [attrs EXCEPT ![pr] = st.attrs]
          /\ provs_dict' = [provs_dict EXCEPT ![provs_ref[pr]] = st.dict]
          /\ counter' = [counter EXCEPT ![pr] = st.counter]
    /\ reg' = [reg EXCEPT ![pr][identifier] = inst]
    /\ calls' = calls + 1
    /\ last_op' = [op |-> "register", prov |-> pr, id |-> identifier, result |-> inst]
    /\ UNCHANGED <<alive, provs_ref>>
    /\ UNCHANGED <<uowVars, periodVars, moneyVars, perfVars>>

GetDependency(pr, identifier) ==
    /\ pr \in alive
    /\ last_op' = [op |-> "get", prov |-> pr, id |-> identifier,
                   result |-> get_dependency(attrs[pr], identifier)]
    /\ UNCHANGED <<attrs, provs_ref, provs_dict, counter, alive, reg, calls>>
    /\ UNCHANGED <<uowVars, periodVars, moneyVars, perfVars>>

HasDependency(pr, identifier) ==
    /\ pr \in alive
    /\ last_op' = [op |-> "has", prov |-> pr, id |-> identifier,
                   result |-> has_dependency(attrs[pr], provs_dict[provs_ref[pr]],
                                             identifier)]
    /\ UNCHANGED <<attrs, provs_ref, provs_dict, counter, alive, reg, calls>>
    /\ UNCHANGED <<uowVars, periodVars, moneyVars, perfVars>>

\* ContainerProvider.copy(**kwargs): copy.copy(self.container) gives a new
\* container object whose attributes are those of the source, the providers
\* dict among them (the same dict object); the new ContainerProvider starts
\* its counter at 0; update() then registers each extra binding on it.
\* extra is a sequence of <<name, instance>> with at most one element.
Extras == {<<>>} \cup {<<<<Str("publish"), v>>>> : v \in Instances}

Copy(extra) ==
    /\ "derived" \notin alive
    /\ alive' = alive \cup {"derived"}
    /\ provs_ref' = [provs_ref EXCEPT !["derived"] = provs_ref["original"]]
    /\ LET fresh == [attrs |-> attrs["original"],
                     dict |-> provs_dict[provs_ref["original"]],
                     counter |-> 0]
           st == IF extra = <<>> THEN fresh
                 ELSE register_dependency(fresh, extra[1][1], extra[1][2])
       IN /\ attrs' = [attrs EXCEPT !["derived"] = st.attrs]
          /\ provs_dict' = [provs_dict EXCEPT ![provs_ref["original"]] = st.dict]
          /\ counter' = [counter EXCEPT !["derived"] = st.counter]
    /\ reg' = [reg EXCEPT !["derived"] =
                 IF extra = <<>> THEN reg["original"]
                 ELSE [reg["original"] EXCEPT ![extra[1][1]] = extra[1][2]]]
    /\ last_op' = [op |-> "copy", prov |-> "derived", id |-> Str("publish"),
                   result |-> IF extra = <<>> THEN "-" ELSE extra[1][2]]
    /\ UNCHANGED calls
    /\ UNCHANGED <<uowVars, periodVars, moneyVars, perfVars>>

DINext ==
    \/ \E pr \in Providers, c \in RegInputs : RegisterDependency(pr, c[1], c[2])
    \/ \E pr \in Providers, i \in LookupIds : GetDependency(pr, i)
    \/ \E pr \in Providers, i \in LookupIds : HasDependency(pr, i)
    \/ \E extra \in Extras : Copy(extra)

(***************************************************************************)
(* Period                                                                  *)
(***************************************************************************)
MaxYear == 2025

Years == (MaxYear - NumYears + 1)..MaxYear

\* Period.__post_init__: the periods that can be constructed
Periods == [year : Years, month : 1..12]

\* Period.__lt__
Period_lt(a, b) == a.year < b.year \/ a.month < b.month

\* Period.__gt__
Period_gt(a, b) == a.year > b.year \/ a.month > b.month

\* Period.inside_range_period
inside_range_period(self, start, end) == Period_lt(start, self) /\ Period_lt(self, end)

NoCmp == [op |-> "none", lt |-> FALSE, gt |-> FALSE, inside |-> FALSE]

PeriodIdle ==
    /\ p = [year |-> MaxYear, month |-> 1]
    /\ q = [year |-> MaxYear, month |-> 1]
    /\ r = [year |-> MaxYear, month |-> 1]
    /\ cmp = NoCmp

PeriodInit ==
    /\ p \in Periods
    /\ q \in Periods
    /\ r \in Periods
    /\ cmp = NoCmp

\* p < q and p > q
Compare ==
    /\ cmp' = [cmp EXCEPT !.op = "compare", !.lt = Period_lt(p, q), !.gt = Period_gt(p, q)]
    /\ UNCHANGED <<p, q, r>>
    /\ UNCHANGED <<uowVars, diVars, moneyVars, perfVars>>

\* r.inside_range_period(p, q)
InsideRange ==
    /\ cmp' = [cmp EXCEPT !.op = "inside", !.inside = inside_range_period(r, p, q)]
    /\ UNCHANGED <<p, q, r>>
    /\ UNCHANGED <<uowVars, diVars, moneyVars, perfVars>>

PeriodNext == Compare \/ InsideRange

(***************************************************************************)
(* Money                                                                   *)
(* Amounts are floats in the code; here they lie on an integer grid and a  *)
(* quotient is rounded down, which keeps the sign of every result.         *)
(***************************************************************************)
Currencies == {"USD", "ARS"}

\* Money(amount=..., currency=...): __post_init__ asserts amount >= 0.  The
\* record tells how construction ended and what it was given.
MoneyNoCheck(amount, currency) ==
    [err |-> "none", amount |-> amount, currency |-> currency]

Money(amount, currency) ==
    [err |-> IF amount >= 0 THEN "none" ELSE "AssertionError",
     amount |-> amount, currency |-> currency]

\* a / b rounded down, for b # 0
FloorDiv(a, b) == IF b > 0 THEN a \div b ELSE -((a + (-b) - 1) \div (-b))

\* Money.__truediv__
Money_truediv(self, other) ==
    IF other = 0
    THEN [err |-> "ZeroDivisionError", amount |-> self.amount, currency |-> self.currency]
    ELSE Money(FloorDiv(self.amount, other), self.currency)

\* Money.__mul__
Money_mul(self, other) == Money(self.amount * other, self.currency)

\* Money.__add__
Money_add(self, other) == Money(self.amount + other.amount, self.currency)

\* Money.__sub__
Money_sub(self, other) == Money(self.amount - other.amount, self.currency)

\* Money.__lt__ / Money.__gt__
Money_lt(self, other) == self.amount < other.amount

Money_gt(self, other) == self.amount > other.amount

\* Money.calculate_fee
Money_calculate_fee(self, fee) == Money(FloorDiv(self.amount * fee, 100), self.currency)

\* Inputs: amounts given to the constructor, Money operands (constructed, so
\* never negative), float factors and divisors, fee percentages.
NewAmounts == {-1, 0, 1, 10}

Operands == [amount : {0, 1, 5}, currency : Currencies]

Factors == {-1, 0, 2}

FeeValues == {0, 10, 50}

MoneyInit ==
    /\ money = [amount |-> 0, currency |-> "ARS"]
    /\ money_last = [op |-> "init", err |-> "none", raw |-> 0, arg |-> 0,
                     left |-> [amount |-> 0, currency |-> "ARS"]]

\* An operation ended as res: a Money that was constructed replaces the one
\* at hand, a failure leaves it.
MoneyAfter(res) ==
    IF res.err = "none"
    THEN [amount |-> res.amount, currency |-> res.currency]
    ELSE money

\* The record of the operation op with argument arg that ended as res.
MoneyLast(op, arg, res) ==
    [op |-> op, err |-> res.err, raw |-> res.amount, arg |-> arg, left |-> money]

MoneyNew(a, c) ==
    LET res == Money(a, c)
    IN /\ res.amount <= MaxAmount
       /\ money' = MoneyAfter(res)
       /\ money_last' = MoneyLast("new", a, res)
       /\ UNCHANGED <<uowVars, diVars, periodVars, perfVars>>

MoneyAdd(o) ==
    LET res == Money_add(money, o)
    IN /\ res.amount <= MaxAmount
       /\ money' = MoneyAfter(res)
       /\ money_last' = MoneyLast("add", o.amount, res)
       /\ UNCHANGED <<uowVars, diVars, periodVars, perfVars>>

MoneySub(o) ==
    LET res == Money_sub(money, o)
    IN /\ res.amount <= MaxAmount
       /\ money' = MoneyAfter(res)
       /\ money_last' = MoneyLast("sub", o.amount, res)
       /\ UNCHANGED <<uowVars, diVars, periodVars, perfVars>>

MoneyMul(k) ==
    LET res == Money_mul(money, k)
    IN /\ res.amount <= MaxAmount
       /\ money' = MoneyAfter(res)
       /\ money_last' = MoneyLast("mul", k, res)
       /\ UNCHANGED <<uowVars, diVars, periodVars, perfVars>>

MoneyDiv(k) ==
    LET res == Money_truediv(money, k)
    IN /\ res.amount <= MaxAmount
       /\ money' = MoneyAfter(res)
       /\ money_last' = MoneyLast("div", k, res)
       /\ UNCHANGED <<uowVars, diVars, periodVars, perfVars>>

MoneyCalculateFee(f) ==
    LET res == Money_calculate_fee(money, f)
    IN /\ res.amount <= MaxAmount
       /\ money' = MoneyAfter(res)
       /\ money_last' = MoneyLast("calculate_fee", f, res)
       /\ UNCHANGED <<uowVars, diVars, periodVars, perfVars>>

MoneyNext ==
    \/ \E a \in NewAmounts, c \in Currencies : MoneyNew(a, c)
    \/ \E o \in Operands : MoneyAdd(o)
    \/ \E o \in Operands : MoneySub(o)
    \/ \E k \in Factors : MoneyMul(k)
    \/ \E k \in Factors : MoneyDiv(k)
    \/ \E f \in FeeValues : MoneyCalculateFee(f)

(***************************************************************************)
(* PartnerPerformance                                                      *)
(* The period of a performance never changes and is left out; whether a    *)
(* call reached its assignment of last_updated is kept in perf_last.       *)
(***************************************************************************)
\* The Money a successful operation returned.
AsMoney(res) == [amount |-> res.amount, currency |-> res.currency]

\* PartnerPerformance(period): the field defaults
PerfInit ==
    /\ perf = [operations_closed |-> 0, properties_captured |-> 0,
               revenue_generated |-> [amount |-> 0, currency |-> "ARS"]]
    /\ perf_last = [op |-> "init", err |-> "none", updated |-> FALSE, arg |-> 0,
                    before |-> [operations_closed |-> 0, properties_captured |-> 0,
                                revenue_generated |-> [amount |-> 0, currency |-> "ARS"]]]

PerfLast(op, err, updated, amount) ==
    [op |-> op, err |-> err, updated |-> updated, arg |-> amount.amount, before |-> perf]

\* PartnerPerformance.register_close
register_close(amount) ==
    LET sum == Money_add(perf.revenue_generated, amount)
    IN /\ perf.operations_closed < MaxCount
       /\ sum.amount <= MaxAmount
       /\ perf' = [perf EXCEPT !.operations_closed = @ + 1,
                               !.revenue_generated = AsMoney(sum)]
       /\ perf_last' = PerfLast("register_close", "none", TRUE, amount)
       /\ UNCHANGED <<uowVars, diVars, periodVars, moneyVars>>

\* PartnerPerformance.register_capture
register_capture(amount) ==
    LET sum == Money_add(perf.revenue_generated, amount)
    IN /\ perf.properties_captured < MaxCount
       /\ sum.amount <= MaxAmount
       /\ perf' = [perf EXCEPT !.properties_captured = @ + 1,
                               !.revenue_generated = AsMoney(sum)]
       /\ perf_last' = PerfLast("register_capture", "none", TRUE, amount)
       /\ UNCHANGED <<uowVars, diVars, periodVars, moneyVars>>

\* PartnerPerformance.remove_close: the assert, the decrement, then the
\* subtraction, whose Money construction may raise after the decrement.
remove_close(amount) ==
    LET diff == Money_sub(perf.revenue_generated, amount)
    IN /\ IF ~(perf.operations_closed > 0)
          THEN /\ perf' = perf
               /\ perf_last' = PerfLast("remove_close", "AssertionError", FALSE, amount)
          ELSE IF diff.err # "none"
          THEN /\ perf' = [perf EXCEPT !.operations_closed = @ - 1]
               /\ perf_last' = PerfLast("remove_close", diff.err, FALSE, amount)
          ELSE /\ perf' = [perf EXCEPT !.operations_closed = @ - 1,
                                       !.revenue_generated = AsMoney(diff)]
               /\ perf_last' = PerfLast("remove_close", "none", TRUE, amount)
       /\ UNCHANGED <<uowVars, diVars, periodVars, moneyVars>>

\* PartnerPerformance.remove_capture
remove_capture(amount) ==
    LET diff == Money_sub(perf.revenue_generated, amount)
    IN /\ IF ~(perf.properties_captured > 0)
          THEN /\ perf' = perf
               /\ perf_last' = PerfLast("remove_capture", "AssertionError", FALSE, amount)
          ELSE IF diff.err # "none"
          THEN /\ perf' = [perf EXCEPT !.properties_captured = @ - 1]
               /\ perf_last' = PerfLast("remove_capture", diff.err, FALSE, amount)
          ELSE /\ perf' = [perf EXCEPT !.properties_captured = @ - 1,
                                       !.revenue_generated = AsMoney(diff)]
               /\ perf_last' = PerfLast("remove_capture", "none", TRUE, amount)
       /\ UNCHANGED <<uowVars, diVars, periodVars, moneyVars>>

\* PartnerPerformance.add_revenue_generated
add_revenue_generated(amount) ==
    LET sum == Money_add(perf.revenue_generated, amount)
    IN /\ sum.amount <= MaxAmount
       /\ perf' = [perf EXCEPT !.revenue_generated = AsMoney(sum)]
       /\ perf_last' = PerfLast("add_revenue_generated", "none", TRUE, amount)
       /\ UNCHANGED <<uowVars, diVars, periodVars, moneyVars>>

\* PartnerPerformance.substract_revenue_generated
substract_revenue_generated(amount) ==
    LET diff == Money_sub(perf.revenue_generated, amount)
    IN /\ IF ~Money_gt(perf.revenue_generated, amount)
          THEN /\ perf' = perf
               /\ perf_last' = PerfLast("substract_revenue_generated", "AssertionError",
                                        FALSE, amount)
          ELSE IF diff.err # "none"
          THEN /\ perf' = perf
               /\ perf_last' = PerfLast("substract_revenue_generated", diff.err,
                                        FALSE, amount)
          ELSE /\ perf' = [perf EXCEPT !.revenue_generated = AsMoney(diff)]
               /\ perf_last' = PerfLast("substract_revenue_generated", "none",
                                        TRUE, amount)
       /\ UNCHANGED <<uowVars, diVars, periodVars, moneyVars>>

PerfNext ==
    \/ \E amount \in Operands : register_close(amount)
    \/ \E amount \in Operands : register_capture(amount)
    \/ \E amount \in Operands : remove_close(amount)
    \/ \E amount \in Operands : remove_capture(amount)
    \/ \E amount \in Operands : add_revenue_generated(amount)
    \/ \E amount \in Operands : substract_revenue_generated(amount)

(***************************************************************************)
(* Specifications                                                          *)
(***************************************************************************)
InitUow == UowInit /\ DIInit /\ PeriodIdle /\ MoneyInit /\ PerfInit

SpecUow == InitUow /\ [][UowNext]_vars

InitDI == UowInit /\ DIInit /\ PeriodIdle /\ MoneyInit /\ PerfInit

SpecDI == InitDI /\ [][DINext]_vars

InitPeriod == UowInit /\ DIInit /\ PeriodInit /\ MoneyInit /\ PerfInit

SpecPeriod == InitPeriod /\ [][PeriodNext]_vars

InitMoney == UowInit /\ DIInit /\ PeriodIdle /\ MoneyInit /\ PerfInit

SpecMoney == InitMoney /\ [][MoneyNext]_vars

InitPerf == UowInit /\ DIInit /\ PeriodIdle /\ MoneyInit /\ PerfInit

SpecPerf == InitPerf /\ [][PerfNext]_vars

(***************************************************************************)
(* Properties of the unit of work (checked under SpecUow)                  *)
(***************************************************************************)
Commits == Count(trace, "session.commit")

Rollbacks == Count(trace, "session.rollback")

Closes == Count(trace, "session.close")

Before(x, y) == \A i \in Positions(trace, x), j \in Positions(trace, y) : i < j

\* The events the handler raised, repository by repository in argument
\* order, each repository's in emission order.
AllEmitted == Flatten(emitted)

IsPrefix(s, t) == Len(s) <= Len(t) /\ s = SubSeq(t, 1, Len(s))

HandlerReturned == Count(trace, "handler") = 1 /\ exc # "handler"

\* C1: a unit of work whose handler and middleware chain complete without
\* error has commit called exactly once, rollback never, close exactly once,
\* and the close after the commit.
C1_SuccessCommitsAndCloses ==
    (pc = "ended" /\ exc = "none") =>
        /\ Commits = 1
        /\ Rollbacks = 0
        /\ Closes = 1
        /\ Before("session.commit", "session.close")

\* C2: a unit of work whose handler (or middleware) raises has rollback
\* called exactly once, commit never, close exactly once, and no exception
\* leaves on_exit_transaction_context.
C2_FailureRollsBackAndSwallows ==
    (pc = "ended" /\ exc # "none") =>
        /\ Rollbacks = 1
        /\ Commits = 0
        /\ Closes = 1
        /\ Before("session.rollback", "session.close")
        /\ raised = "none"

\* C2 witness: a unit of work ended after its handler raised.
C2_Witness ==
    pc = "ended" /\ exc = "handler" /\ Rollbacks = 1 /\ correlation_id = "zero"

\* C3 as stated: once the handler has returned, by the end of the unit of
\* work every event is published exactly once in repository-then-emission
\* order and the buffers are empty; nothing is collected or published when
\* the handler raised.
C3_EveryEventPublishedOnce ==
    pc = "ended" =>
        IF HandlerReturned
        THEN /\ published = AllEmitted
             /\ \A a \in Args : handler_kwargs[a].buf = <<>>
        ELSE /\ published = <<>>
             /\ Count(trace, "collect_events") = 0

\* C3 amended: once the handler has returned and the events are collected,
\* every repository buffer is empty and the events published so far are a
\* prefix of the emitted events in repository-then-emission order (so none
\* twice); the prefix is everything when no publication failed, and stops
\* right before the failing event otherwise.  When the handler raised,
\* nothing is collected or published.
C3_PublishedInOrderUpToFailure ==
    /\ (pc \in {"publishing", "collector_returned"} \/ (pc \in {"exiting", "ended"} /\ HandlerReturned)) =>
          /\ \A a \in Args : handler_kwargs[a].buf = <<>>
          /\ Count(trace, "collect_events") = Cardinality({a \in Args : handler_kwargs[a].isRepo})
          /\ IsPrefix(published, AllEmitted)
          /\ (pc # "publishing" /\ exc = "none") => published = AllEmitted
          /\ exc = "publish" =>
                /\ Len(published) < Len(AllEmitted)
                /\ Count(trace, "publish_async") = Len(published) + 1
    /\ (pc \in {"exiting", "ended"} /\ ~HandlerReturned) =>
          /\ published = <<>>
          /\ Count(trace, "collect_events") = 0
          /\ Count(trace, "publish_async") = 0

\* C3 witness: two repositories raised events, the first repository's were
\* published and a later publication failed.
C3_Witness ==
    /\ pc = "ended"
    /\ exc = "publish"
    /\ Len(emitted[1]) = 2
    /\ Len(emitted[2]) = 2
    /\ published = <<<<1, 1>>, <<1, 2>>, <<2, 1>>>>

\* C4: every unit of work that ends has its session closed and the
\* correlation id back at UUID(int=0), also when session.commit() fails, in
\* which case the session is rolled back.
C4_AlwaysClosedAndReset ==
    pc = "ended" =>
        /\ Closes = 1
        /\ correlation_id = "zero"
        /\ (raised = "commit" => Rollbacks = 1)

\* C5: the handler completes before any event is published, commit is
\* called only after every collected event's publish_async completed, and
\* after a failed publication the session is never committed.
C5_PublishBeforeCommit ==
    /\ Before("handler", "publish_async")
    /\ Before("publish_async", "session.commit")
    /\ Commits > 0 =>
          /\ published = domain_events
          /\ Count(trace, "publish_async") = Len(domain_events)
    /\ exc = "publish" => Commits = 0

\* C5 witness: a committed unit of work that published events of both
\* repositories.
C5_Witness ==
    /\ pc = "ended"
    /\ Commits = 1
    /\ raised = "none"
    /\ Len(published) = 3

\* C6: logging_middleware logs the start message before the inner chain
\* runs and the completion message after it ends, whether the inner chain
\* succeeded or raised.
C6_StartAndFinishLogged ==
    pc \in {"exiting", "ended"} =>
        /\ Count(trace, "debug:Executing") = 1
        /\ Before("debug:Executing", "handler")
        /\ Count(trace, "debug:Finished executing") = 1
        /\ Before("handler", "debug:Finished executing")

(***************************************************************************)
(* Properties of ContainerProvider (checked under SpecDI)                  *)
(***************************************************************************)
CheckedTypes == Types \cup {"object", "StrategyRepository", "UUID"}

\* The providers of a container whose declared type is a subtype of cls.
DeclaredMatches(container, cls) ==
    {k \in Keys : container[k].kind \in {"Factory", "Singleton", "Dependency"}
                  /\ issubclass(container[k].cls, cls)}

\* C7: a lookup by type returns the instance of the one provider whose
\* declared type is a subtype of the requested type, and fails when no
\* provider or more than one matches.
C7_UniqueTypeResolution ==
    \A pr \in alive, T \in CheckedTypes :
        LET m == DeclaredMatches(attrs[pr], T)
            got == get_dependency(attrs[pr], Type(T))
        IN /\ IF Cardinality(m) = 1
              THEN \E k \in m : got = attrs[pr][k].inst
              ELSE got = Error
           /\ (last_op.op = "get" /\ last_op.prov = pr /\ last_op.id = Type(T)) =>
                 last_op.result = got

\* C7 witness: a lookup of a type two repositories match failed, on a
\* provider where Session no longer matches anything.
C7_Witness ==
    /\ last_op.op = "get"
    /\ last_op.id = Type("GenericRepository")
    /\ last_op.result = Error
    /\ DeclaredMatches(attrs[last_op.prov], "Session") = {}
    /\ Cardinality(DeclaredMatches(attrs[last_op.prov], "UUID")) = 1

CheckedIds == LookupIds \cup RegIds \cup DOMAIN TransactionContainer

\* C9: after derived = provider.copy(extra), a register_dependency on the
\* derived provider changes neither has_dependency nor get_dependency of the
\* original, and the copy resolves what the original resolved plus extra.
C9_CopyIsolatesOriginal ==
    [][ /\ (last_op'.op = "register" /\ last_op'.prov = "derived") =>
              \A i \in CheckedIds :
                 /\ get_dependency(attrs'["original"], i)
                       = get_dependency(attrs["original"], i)
                 /\ has_dependency(attrs'["original"],
                                   provs_dict'[provs_ref'["original"]], i)
                       = has_dependency(attrs["original"],
                                        provs_dict[provs_ref["original"]], i)
        /\ (last_op'.op = "copy" /\ "derived" \notin alive) =>
              \A i \in CheckedIds :
                 get_dependency(attrs'["derived"], i) =
                    IF last_op'.result # "-" /\ i = Str("publish")
                    THEN last_op'.result
                    ELSE get_dependency(attrs["original"], i)
      ]_vars

(***************************************************************************)
(* Properties of Period (checked under SpecPeriod)                         *)
(***************************************************************************)
\* C10: p < q exactly when p.year < q.year, or the years are equal and
\* p.month < q.month; p > q symmetrically; never both p < q and q < p.
C10_YearThenMonth ==
    cmp.op = "compare" =>
        /\ cmp.lt <=> (p.year < q.year \/ (p.year = q.year /\ p.month < q.month))
        /\ cmp.gt <=> (p.year > q.year \/ (p.year = q.year /\ p.month > q.month))
        /\ ~(Period_lt(p, q) /\ Period_lt(q, p))

(***************************************************************************)
(* Properties of Money (checked under SpecMoney)                           *)
(***************************************************************************)
\* C11: every Money obtained by construction or by add, subtract, multiply,
\* divide and calculate_fee has amount >= 0 and, for the operations, the
\* currency of the left operand; an operation whose result would be
\* negative fails at construction and yields no Money.
C11_MoneyNonNegative ==
    /\ money.amount >= 0
    /\ money_last.op # "init" =>
          /\ money_last.err = "none" =>
                /\ money.amount = money_last.raw
                /\ money_last.op # "new" => money.currency = money_last.left.currency
          /\ money_last.raw < 0 => money_last.err = "AssertionError"
          /\ money_last.err # "none" => money = money_last.left
          /\ (money_last.op = "sub" /\ money_last.arg > money_last.left.amount) =>
                money_last.err = "AssertionError"
          /\ money_last.op = "sub" => money_last.raw = money_last.left.amount - money_last.arg
          /\ money_last.op = "add" => money_last.raw = money_last.left.amount + money_last.arg

\* C11 witness: a USD amount from which a larger amount was subtracted: the
\* subtraction failed and the Money at hand is still the left operand.
C11_Witness ==
    /\ money_last.op = "sub"
    /\ money_last.err = "AssertionError"
    /\ money_last.left = [amount |-> 2, currency |-> "USD"]
    /\ money_last.arg = 5
    /\ money = money_last.left

(***************************************************************************)
(* Properties of PartnerPerformance (checked under SpecPerf)               *)
(***************************************************************************)
\* C12: remove_close fails when operations_closed is 0, remove_capture fails
\* when properties_captured is 0, and a remove_close, remove_capture or
\* substract_revenue_generated call that fails leaves operations_closed,
\* properties_captured and revenue_generated as they were, so that none of
\* them is ever negative.
C12_FailedCallChangesNothing ==
    /\ perf.operations_closed >= 0
    /\ perf.properties_captured >= 0
    /\ perf.revenue_generated.amount >= 0
    /\ (perf_last.op = "remove_close" /\ perf_last.before.operations_closed = 0) =>
          perf_last.err # "none"
    /\ (perf_last.op = "remove_capture" /\ perf_last.before.properties_captured = 0) =>
          perf_last.err # "none"
    /\ (perf_last.op \in {"remove_close", "remove_capture", "substract_revenue_generated"}
        /\ perf_last.err # "none") => perf = perf_last.before

=============================================================================
